---- MODULE Spec2Model ----
(***************************************************************************)
(* Model of 0x03-user_authentication_service/auth.py: the Auth class, a    *)
(* facade over the user store (db.DB) and bcrypt.                          *)
(*                                                                         *)
(* The store is a sequence of user rows; a row's id is its position, so    *)
(* ids are assigned at insertion, never change and are never reused.       *)
(* Every method of Auth is a pure operator from (store, arguments) to an   *)
(* outcome [users, ret, err, gen]; the action of the same name applies it  *)
(* to the current store with arguments drawn from the bounded input sets.  *)
(***************************************************************************)
EXTENDS Integers, Sequences, FiniteSets, TLC

\* ---------------------------------------------------------------- bounds
\* how many values uuid.uuid4() is asked for in one run
MaxUuid == 2

\* ---------------------------------------------------------------- values
\* Python's None, and the falsy empty string.
None == "None"
EmptyStr == ""

\* the arguments callers pass
Emails == {"a@x.com", "b@x.com"}
Passwords == {"p1", "p2"}

\* the salts bcrypt.gensalt() may draw
Salts == {"salt1", "salt2"}

\* the n-th value str(uuid.uuid4()) produces: a value never produced before
Uuid(n) == "uuid-" \o ToString(n)
Uuids == {Uuid(n) : n \in 1..MaxUuid}

\* user ids a caller may pass: every id the store can hold, and one it cannot
UserIds == 1..(Cardinality(Emails) + 1)

\* token arguments a caller may pass
TokenArgs == Uuids \cup {None, EmptyStr}

\* a method's return value: <<>> is None, <<v>> is the value v
RetNone == <<>>
Ret(v) == <<v>>

\* the exceptions that leave a method
NoError == "no error"
AlreadyExists == "ValueError: User already exists"
InvalidTarget == "ValueError: User does not exist"
InvalidToken == "ValueError: Invalid reset token"
TypeError == "TypeError"

\* ---------------------------------------------------------------- bcrypt
\* bcrypt.gensalt() picks the salt; the digest carries its salt and the
\* one-way image of (salt, password).
hashpw(password, salt) == [salt |-> salt, key |-> <<salt, password>>]

\* bcrypt.checkpw re-hashes the candidate under the digest's own salt.
checkpw(password, hashed_password) ==
    hashpw(password, hashed_password.salt) = hashed_password

hash_password(password, salt) == hashpw(password, salt)

\* ---------------------------------------------------------------- store
\* DB.find_user_by's "no row" signal; a found row is named by its id.
NoResultFound == 0

Min(S) == CHOOSE m \in S : \A n \in S : m <= n

\* DB.find_user_by(field=value): the first row whose field has the value.
find_user_by(us, field, value) ==
    LET hits == {i \in DOMAIN us : us[i][field] = value}
    IN  IF hits = {} THEN NoResultFound ELSE Min(hits)

\* DB.add_user(email, hashed_password): a new row, no session, no reset.
add_user(us, email, hashed_password) ==
    Append(us, [id              |-> Len(us) + 1,
                email           |-> email,
                hashed_password |-> hashed_password,
                session_id      |-> None,
                reset_token     |-> None])

\* DB.update_user(user_id, field=value): one write of one field; no row with
\* that id, nothing written.
update_user(us, user_id, field, value) ==
    IF user_id \in DOMAIN us
    THEN [us EXCEPT ![user_id][field] = value]
    ELSE us

Outcome(us, ret, err, gen) == [users |-> us, ret |-> ret, err |-> err, gen |-> gen]

\* ---------------------------------------------------------------- Auth
\* generate_uuid with a generator that repeats itself
generate_uuid_repeating(n) == Uuid(1)

generate_uuid(n) == Uuid(n + 1)

\* register_user without the lookup: it inserts whatever it is given
register_user_unchecked(us, email, password, salt) ==
    LET new == add_user(us, email, hash_password(password, salt))
    IN  Outcome(new, Ret(new[Len(new)]), NoError, 0)

\* register_user with the two branches of the lookup swapped
register_user_inverted(us, email, password, salt) ==
    IF find_user_by(us, "email", email) = NoResultFound
    THEN Outcome(us, RetNone, AlreadyExists, 0)
    ELSE LET new == add_user(us, email, hash_password(password, salt))
         IN  Outcome(new, Ret(new[Len(new)]), NoError, 0)

\* register_user that replaces the digest of an email it finds
register_user_overwriting(us, email, password, salt) ==
    LET user == find_user_by(us, "email", email)
    IN  IF user # NoResultFound
        THEN LET new == update_user(us, user, "hashed_password", hash_password(password, salt))
             IN  Outcome(new, Ret(new[user]), NoError, 0)
        ELSE LET new == add_user(us, email, hash_password(password, salt))
             IN  Outcome(new, Ret(new[Len(new)]), NoError, 0)

register_user(us, email, password, salt) ==
    IF find_user_by(us, "email", email) # NoResultFound
    THEN Outcome(us, RetNone, AlreadyExists, 0)
    ELSE LET new == add_user(us, email, hash_password(password, salt))
         IN  Outcome(new, Ret(new[Len(new)]), NoError, 0)

\* valid_login that accepts any password of a known email
valid_login_any_password(us, email, password) ==
    LET user == find_user_by(us, "email", email)
    IN  IF user = NoResultFound
        THEN Outcome(us, Ret(FALSE), NoError, 0)
        ELSE Outcome(us, Ret(TRUE), NoError, 0)

\* valid_login that lets the store's "no row" signal escape
valid_login_raising(us, email, password) ==
    LET user == find_user_by(us, "email", email)
    IN  IF user = NoResultFound
        THEN Outcome(us, RetNone, "NoResultFound", 0)
        ELSE Outcome(us, Ret(checkpw(password, us[user].hashed_password)), NoError, 0)

valid_login(us, email, password) ==
    LET user == find_user_by(us, "email", email)
    IN  IF user = NoResultFound
        THEN Outcome(us, Ret(FALSE), NoError, 0)
        ELSE Outcome(us, Ret(checkpw(password, us[user].hashed_password)), NoError, 0)

\* create_session that keeps the session a row already has
create_session_keeping(us, email, n) ==
    LET user == find_user_by(us, "email", email)
    IN  IF user = NoResultFound
        THEN Outcome(us, RetNone, NoError, 0)
        ELSE LET session_id == generate_uuid(n)
             IN  IF us[user].session_id # None
                 THEN Outcome(us, Ret(session_id), NoError, 1)
                 ELSE Outcome(update_user(us, us[user].id, "session_id", session_id),
                              Ret(session_id), NoError, 1)

create_session(us, email, n) ==
    LET user == find_user_by(us, "email", email)
    IN  IF user = NoResultFound
        THEN Outcome(us, RetNone, NoError, 0)
        ELSE LET session_id == generate_uuid(n)
             IN  Outcome(update_user(us, us[user].id, "session_id", session_id),
                         Ret(session_id), NoError, 1)

\* an outcome that also tells how many store lookups the call made
Looked(out, finds) ==
    [users |-> out.users, ret |-> out.ret, err |-> out.err, gen |-> out.gen,
     finds |-> finds]

\* get_user_from_session_id without the "if not session_id" guard
get_user_from_session_id_unguarded(us, session_id) ==
    LET user == find_user_by(us, "session_id", session_id)
    IN  IF user = NoResultFound
        THEN Looked(Outcome(us, RetNone, NoError, 0), 1)
        ELSE Looked(Outcome(us, Ret(us[user]), NoError, 0), 1)

\* get_user_from_session_id that lets the store's "no row" signal escape
get_user_from_session_id_raising(us, session_id) ==
    IF session_id \in {None, EmptyStr}
    THEN Looked(Outcome(us, RetNone, NoError, 0), 0)
    ELSE LET user == find_user_by(us, "session_id", session_id)
         IN  IF user = NoResultFound
             THEN Looked(Outcome(us, RetNone, "NoResultFound", 0), 1)
             ELSE Looked(Outcome(us, Ret(us[user]), NoError, 0), 1)

get_user_from_session_id(us, session_id) ==
    IF session_id \in {None, EmptyStr}
    THEN Looked(Outcome(us, RetNone, NoError, 0), 0)
    ELSE LET user == find_user_by(us, "session_id", session_id)
         IN  IF user = NoResultFound
             THEN Looked(Outcome(us, RetNone, NoError, 0), 1)
             ELSE Looked(Outcome(us, Ret(us[user]), NoError, 0), 1)

\* destroy_session that clears the other token
destroy_session_wrong_field(us, user_id) ==
    Outcome(update_user(us, user_id, "reset_token", None), RetNone, NoError, 0)

\* destroy_session that refuses an id no row has
destroy_session_checked(us, user_id) ==
    IF user_id \in DOMAIN us
    THEN Outcome(update_user(us, user_id, "session_id", None), RetNone, NoError, 0)
    ELSE Outcome(us, RetNone, "NoResultFound", 0)

destroy_session(us, user_id) ==
    Outcome(update_user(us, user_id, "session_id", None), RetNone, NoError, 0)

\* get_reset_password_token that answers an unknown email with None
get_reset_password_token_silent(us, email, n) ==
    LET user == find_user_by(us, "email", email)
    IN  IF user = NoResultFound
        THEN Outcome(us, RetNone, NoError, 0)
        ELSE LET reset_token == Uuid(n + 1)
             IN  Outcome(update_user(us, us[user].id, "reset_token", reset_token),
                         Ret(reset_token), NoError, 1)

\* get_reset_password_token that keeps a reset token the row already has
get_reset_password_token_keeping(us, email, n) ==
    LET user == find_user_by(us, "email", email)
    IN  IF user = NoResultFound
        THEN Outcome(us, RetNone, InvalidTarget, 0)
        ELSE LET reset_token == Uuid(n + 1)
             IN  IF us[user].reset_token # None
                 THEN Outcome(us, Ret(reset_token), NoError, 1)
                 ELSE Outcome(update_user(us, us[user].id, "reset_token", reset_token),
                              Ret(reset_token), NoError, 1)

get_reset_password_token(us, email, n) ==
    LET user == find_user_by(us, "email", email)
    IN  IF user = NoResultFound
        THEN Outcome(us, RetNone, InvalidTarget, 0)
        ELSE LET reset_token == Uuid(n + 1)
             IN  Outcome(update_user(us, us[user].id, "reset_token", reset_token),
                         Ret(reset_token), NoError, 1)

\* update_password that clears the reset token of the first row when the
\* token it is given matches none
update_password_clearing(us, reset_token, password, salt) ==
    LET user == find_user_by(us, "reset_token", reset_token)
    IN  IF user = NoResultFound
        THEN Outcome(update_user(us, 1, "reset_token", None), RetNone, InvalidToken, 0)
        ELSE Outcome(us, RetNone, TypeError, 0)

\* Line 90 calls self._db.update_user() with no arguments: the call raises
\* TypeError before any write, and "except NoResultFound" does not catch it.
update_password(us, reset_token, password, salt) ==
    LET user == find_user_by(us, "reset_token", reset_token)
    IN  IF user = NoResultFound
        THEN Outcome(us, RetNone, InvalidToken, 0)
        ELSE Outcome(us, RetNone, TypeError, 0)

\* ---------------------------------------------------------------- state
VARIABLES
    users,      \* the rows of the store
    uuids,      \* how many uuid4 values have been generated
    last,       \* the latest call: method, arguments, return value, error
    prev,       \* the store as it was when the latest call started
    cred,       \* history: email -> the password set by register or by a
                \* successful update_password, None for no account
    sessionLog, \* history: the <<email, token>> pairs create_session returned
    resetLog,   \* history: the <<email, token>> pairs
                \* get_reset_password_token returned
    live,       \* history: email -> the token of its latest create_session,
                \* None once destroy_session was called for its row
    presented,  \* history: the reset tokens update_password was given while
                \* a row held them
    calls       \* concurrent callers only: thread -> the call it is in, and
                \* how far that call has got

vars == <<users, uuids, last, prev, cred, sessionLog, resetLog, live, presented, calls>>

\* the callers that may be inside Auth at the same time; each makes one call
Threads == {"t1", "t2", "t3"}

\* a thread that is in no call
Idle == [op |-> "none", pc |-> "idle", email |-> None, password |-> None,
         token |-> None, user |-> NoResultFound, old |-> None, err |-> NoError]

\* bcrypt.gensalt() runs only on the branch that hashes (lines 33 and 89); a
\* call that leaves before it draws no salt, and its salt argument is unused.
DrawnSalts(hashes) == IF hashes THEN Salts ELSE {CHOOSE salt \in Salts : TRUE}

Call(op, email, password, token, user_id, out) ==
    [op |-> op, email |-> email, password |-> password, token |-> token,
     user_id |-> user_id, ret |-> out.ret, err |-> out.err]

Init ==
    /\ users = <<>>
    /\ uuids = 0
    /\ last = [op |-> "init", email |-> None, password |-> None, token |-> None,
               user_id |-> 0, ret |-> RetNone, err |-> NoError]
    /\ prev = <<>>
    /\ cred = [e \in Emails |-> None]
    /\ sessionLog = <<>>
    /\ resetLog = <<>>
    /\ live = [e \in Emails |-> None]
    /\ presented = {}
    /\ calls = [t \in Threads |-> Idle]

RegisterUser ==
    \E email \in Emails, password \in Passwords :
      \E salt \in DrawnSalts(find_user_by(users, "email", email) = NoResultFound) :
        LET out == register_user(users, email, password, salt)
        IN  /\ users' = out.users
            /\ prev' = users
            /\ last' = Call("register_user", email, password, None, 0, out)
            /\ cred' = IF out.err = NoError
                       THEN [cred EXCEPT ![email] = password] ELSE cred
            /\ UNCHANGED <<uuids, sessionLog, resetLog, live, presented, calls>>

ValidLogin ==
    \E email \in Emails, password \in Passwords :
        LET out == valid_login(users, email, password)
        IN  /\ users' = out.users
            /\ prev' = users
            /\ last' = Call("valid_login", email, password, None, 0, out)
            /\ UNCHANGED <<uuids, cred, sessionLog, resetLog, live, presented, calls>>

CreateSession ==
    \E email \in Emails :
        LET out == create_session(users, email, uuids)
        IN  /\ uuids + out.gen <= MaxUuid
            /\ users' = out.users
            /\ uuids' = uuids + out.gen
            /\ prev' = users
            /\ last' = Call("create_session", email, None, None, 0, out)
            /\ sessionLog' = IF out.ret # RetNone
                             THEN Append(sessionLog, <<email, out.ret[1]>>)
                             ELSE sessionLog
            /\ live' = IF out.ret # RetNone
                       THEN [live EXCEPT ![email] = out.ret[1]] ELSE live
            /\ UNCHANGED <<cred, resetLog, presented, calls>>

GetUserFromSessionId ==
    \E session_id \in TokenArgs :
        LET out == get_user_from_session_id(users, session_id)
        IN  /\ users' = out.users
            /\ prev' = users
            /\ last' = Call("get_user_from_session_id", None, None, session_id, 0, out)
            /\ UNCHANGED <<uuids, cred, sessionLog, resetLog, live, presented, calls>>

DestroySession ==
    \E user_id \in UserIds :
        LET out == destroy_session(users, user_id)
        IN  /\ users' = out.users
            /\ prev' = users
            /\ last' = Call("destroy_session", None, None, None, user_id, out)
            /\ live' = IF user_id \in DOMAIN users
                       THEN [live EXCEPT ![users[user_id].email] = None] ELSE live
            /\ UNCHANGED <<uuids, cred, sessionLog, resetLog, presented, calls>>

GetResetPasswordToken ==
    \E email \in Emails :
        LET out == get_reset_password_token(users, email, uuids)
        IN  /\ uuids + out.gen <= MaxUuid
            /\ users' = out.users
            /\ uuids' = uuids + out.gen
            /\ prev' = users
            /\ last' = Call("get_reset_password_token", email, None, None, 0, out)
            /\ resetLog' = IF out.ret # RetNone
                           THEN Append(resetLog, <<email, out.ret[1]>>)
                           ELSE resetLog
            /\ UNCHANGED <<cred, sessionLog, live, presented, calls>>

UpdatePassword ==
    \E reset_token \in TokenArgs, password \in Passwords :
      \E salt \in DrawnSalts(find_user_by(users, "reset_token", reset_token) # NoResultFound) :
        LET out  == update_password(users, reset_token, password, salt)
            user == find_user_by(users, "reset_token", reset_token)
        IN  /\ users' = out.users
            /\ prev' = users
            /\ last' = Call("update_password", None, password, reset_token, 0, out)
            /\ cred' = IF out.err = NoError /\ user # NoResultFound
                       THEN [cred EXCEPT ![users[user].email] = password] ELSE cred
            /\ presented' = IF user # NoResultFound /\ reset_token \in Uuids
                            THEN presented \cup {reset_token} ELSE presented
            /\ UNCHANGED <<uuids, sessionLog, resetLog, live, calls>>

Next ==
    \/ RegisterUser
    \/ ValidLogin
    \/ CreateSession
    \/ GetUserFromSessionId
    \/ DestroySession
    \/ GetResetPasswordToken
    \/ UpdatePassword

Spec == Init /\ [][Next]_vars

TypeOK ==
    /\ uuids \in 0..MaxUuid
    /\ Len(users) <= Cardinality(Emails)
    /\ \A i \in DOMAIN users : users[i].id = i /\ users[i].email \in Emails

\* ---------------------------------------------------------------- helpers
\* the observable result of a call: what it returns and what it raises
Obs(out) == [ret |-> out.ret, err |-> out.err]

Registered(us, email) == find_user_by(us, "email", email) # NoResultFound

\* the latest call was update_password with a token that a row held
ResetTokenAccepted ==
    /\ last.op = "update_password"
    /\ last.token \in Uuids
    /\ find_user_by(prev, "reset_token", last.token) # NoResultFound

\* ---------------------------------------------------------------- C1
\* C1: update_password(rt, p2) with a token rt that get_reset_password_token
\* issued and a row still holds returns without error; afterwards
\* valid_login(email, p2) is true and valid_login(email, old) is false for
\* every other password old that was valid before.
C1_UpdatePasswordSetsNewPassword ==
    ResetTokenAccepted =>
        LET email == prev[find_user_by(prev, "reset_token", last.token)].email
        IN  /\ last.err = NoError
            /\ valid_login(users, email, last.password).ret = Ret(TRUE)
            /\ \A old \in Passwords \ {last.password} :
                   valid_login(users, email, old).ret = Ret(FALSE)

\* ---------------------------------------------------------------- C2
\* C2: a reset token is used once: update_password with a token that an
\* earlier update_password call was already given while a row held it fails
\* with "Invalid reset token" and changes no row.
C2_ResetTokenSingleUse ==
    [][(last'.op = "update_password" /\ last'.token \in presented)
         => (last'.err = InvalidToken /\ users' = users)]_vars

\* ---------------------------------------------------------------- C3
\* C3: register_user on an email no row holds raises nothing, appends exactly
\* one row with that email, a digest of that password and of no other, no
\* session and no reset token, returns that row, and leaves the rows that
\* were there as they were.
C3_RegisterInsertsOneRecord ==
    (last.op = "register_user" /\ ~Registered(prev, last.email)) =>
        /\ last.err = NoError
        /\ Len(users) = Len(prev) + 1
        /\ \A i \in DOMAIN prev : users[i] = prev[i]
        /\ LET r == users[Len(users)]
           IN  /\ r.email = last.email
               /\ checkpw(last.password, r.hashed_password)
               /\ \A q \in Passwords \ {last.password} : ~checkpw(q, r.hashed_password)
               /\ r.session_id = None
               /\ r.reset_token = None
               /\ \A i \in DOMAIN prev : prev[i].id # r.id
               /\ last.ret = Ret(r)

C3_Witness ==
    /\ last.op = "register_user"
    /\ ~Registered(prev, last.email)
    /\ Len(prev) >= 1
    /\ prev[1].session_id # None

\* ---------------------------------------------------------------- C4
\* C4: register_user on an email a row already holds raises "already
\* exists" and leaves the store as it was: no row added, every field of
\* every row kept.
C4_RegisterDuplicateFails ==
    (last.op = "register_user" /\ Registered(prev, last.email)) =>
        /\ last.err = AlreadyExists
        /\ last.ret = RetNone
        /\ users = prev

C4_Witness ==
    /\ last.op = "register_user"
    /\ Registered(prev, last.email)
    /\ LET r == prev[find_user_by(prev, "email", last.email)]
       IN  /\ r.session_id # None
           /\ r.reset_token # None
           /\ ~checkpw(last.password, r.hashed_password)

\* ---------------------------------------------------------------- C5
\* C5: in every state, valid_login(email, password) returns True exactly
\* when the email has an account and the password is the one set for it by
\* register_user or by the last successful update_password; it returns False
\* for every other password, raises nothing and writes nothing.
C5_ValidLoginIffCurrentPassword ==
    /\ \A email \in Emails :
           /\ Registered(users, email) <=> cred[email] # None
           /\ \A password \in Passwords :
                  valid_login(users, email, password)
                      = Outcome(users, Ret(cred[email] = password), NoError, 0)
    /\ last.op = "valid_login" =>
           /\ last.ret = Ret(cred[last.email] = last.password)
           /\ last.err = NoError
           /\ users = prev

C5_Witness ==
    /\ last.op = "valid_login"
    /\ last.ret = Ret(TRUE)
    /\ Len(users) = 2
    /\ cred[users[1].email] # cred[users[2].email]

\* ---------------------------------------------------------------- C6
\* C6: valid_login does not tell an unknown email from a wrong password: on
\* the store before an email was registered and on the store after it was
\* registered with another password, valid_login(email, password) has the
\* same observable outcome, False and no error, and leaves each store as it
\* was.
C6_LoginEnumerationResistant ==
    \A email \in Emails, password \in Passwords :
        (/\ ~Registered(prev, email)
         /\ Registered(users, email)
         /\ cred[email] # password) =>
            /\ Obs(valid_login(prev, email, password)) = Obs(valid_login(users, email, password))
            /\ Obs(valid_login(prev, email, password)) = [ret |-> Ret(FALSE), err |-> NoError]
            /\ valid_login(prev, email, password).users = prev
            /\ valid_login(users, email, password).users = users

C6_Witness ==
    /\ last.op = "register_user"
    /\ last.err = NoError
    /\ ~Registered(prev, last.email)
    /\ Registered(users, last.email)
    /\ \E password \in Passwords : cred[last.email] # password

\* ---------------------------------------------------------------- C7
\* C7: create_session on a registered email returns a token that is neither
\* None nor empty and is now that row's session_id, and
\* get_user_from_session_id on that token returns the row with that email.
C7_CreateSessionResolves ==
    (last.op = "create_session" /\ Registered(prev, last.email)) =>
        /\ last.err = NoError
        /\ last.ret # RetNone
        /\ last.ret[1] \notin {None, EmptyStr}
        /\ LET r == users[find_user_by(users, "email", last.email)]
           IN  /\ r.session_id = last.ret[1]
               /\ get_user_from_session_id(users, last.ret[1]).ret = Ret(r)
               /\ get_user_from_session_id(users, last.ret[1]).ret[1].email = last.email

C7_Witness ==
    /\ last.op = "create_session"
    /\ Registered(prev, last.email)
    /\ \E i \in DOMAIN users :
           users[i].email # last.email /\ users[i].session_id # None

\* ---------------------------------------------------------------- C8
\* C8: when create_session returned t1 and later t2 for the same email, then
\* from the second call on get_user_from_session_id(t1) returns None, and
\* right after the second call get_user_from_session_id(t2) returns the row
\* of that email.
C8_SecondSessionInvalidatesFirst ==
    /\ \A i, j \in DOMAIN sessionLog :
           (i < j /\ sessionLog[i][1] = sessionLog[j][1]) =>
               get_user_from_session_id(users, sessionLog[i][2]).ret = RetNone
    /\ (/\ last.op = "create_session"
        /\ last.ret # RetNone
        /\ \E i \in 1..(Len(sessionLog) - 1) : sessionLog[i][1] = last.email) =>
           get_user_from_session_id(users, last.ret[1]).ret
               = Ret(users[find_user_by(users, "email", last.email)])

C8_Witness ==
    /\ last.op = "create_session"
    /\ Len(sessionLog) = 2
    /\ sessionLog[1][1] = last.email
    /\ sessionLog[2] = <<last.email, last.ret[1]>>
    /\ prev[find_user_by(prev, "email", last.email)].session_id = sessionLog[1][2]

\* ---------------------------------------------------------------- C9
\* C9: after destroy_session(id) on a row that held session token t the
\* row's session_id is None and get_user_from_session_id(t) returns None; a
\* second destroy_session(id) raises nothing and leaves the store as the
\* first call left it.
C9_DestroySessionIdempotent ==
    (last.op = "destroy_session" /\ last.user_id \in DOMAIN prev) =>
        /\ last.err = NoError
        /\ users[last.user_id].session_id = None
        /\ users = [prev EXCEPT ![last.user_id].session_id = None]
        /\ prev[last.user_id].session_id # None =>
               get_user_from_session_id(users, prev[last.user_id].session_id).ret = RetNone
        /\ destroy_session(users, last.user_id) = Outcome(users, RetNone, NoError, 0)
        /\ prev[last.user_id].session_id = None => users = prev

C9_Witness ==
    /\ last.op = "destroy_session"
    /\ last.user_id \in DOMAIN prev
    /\ prev[last.user_id].session_id # None
    /\ prev[last.user_id].reset_token # None

C11_ResetUnknownEmailFails ==
    (last.op = "get_reset_password_token" /\ ~Registered(prev, last.email)) =>
        /\ last.err = InvalidTarget
        /\ last.ret = RetNone
        /\ users = prev

C11_Witness ==
    /\ last.op = "get_reset_password_token"
    /\ ~Registered(prev, last.email)
    /\ \E i \in DOMAIN prev : prev[i].reset_token # None

\* ---------------------------------------------------------------- C12
\* C12: when get_reset_password_token returned rt1 and later rt2 for the same
\* email, the row's reset_token is rt2 right after the second call, and from
\* then on update_password(rt1, p) raises "Invalid reset token" and changes
\* nothing; a row's hashed_password is changed by no call other than an
\* update_password given the reset token the row holds.
C12_OneResetInFlight ==
    /\ \A i, j \in DOMAIN resetLog :
           (i < j /\ resetLog[i][1] = resetLog[j][1]) =>
               /\ find_user_by(users, "reset_token", resetLog[i][2]) = NoResultFound
               /\ \A password \in Passwords, salt \in Salts :
                      update_password(users, resetLog[i][2], password, salt)
                          = Outcome(users, RetNone, InvalidToken, 0)
    /\ (last.op = "get_reset_password_token" /\ last.ret # RetNone) =>
           users[find_user_by(users, "email", last.email)].reset_token = last.ret[1]
    /\ (last.op = "update_password" /\ last.token \in Uuids /\ ~ResetTokenAccepted) =>
           (last.err = InvalidToken /\ users = prev)
    /\ \A i \in DOMAIN prev :
           users[i].hashed_password # prev[i].hashed_password =>
               /\ last.op = "update_password"
               /\ last.token \in Uuids
               /\ last.token = prev[i].reset_token

C12_Witness ==
    /\ last.op = "update_password"
    /\ Len(resetLog) = 2
    /\ resetLog[1][1] = resetLog[2][1]
    /\ last.token = resetLog[1][2]
    /\ users[find_user_by(users, "email", resetLog[2][1])].reset_token = resetLog[2][2]

\* ---------------------------------------------------------------- C13
\* C13: update_password with a token that is the reset_token of no row raises
\* "Invalid reset token" and leaves hashed_password, reset_token and
\* session_id of every row as they were.
C13_UnknownResetTokenFails ==
    (/\ last.op = "update_password"
     /\ find_user_by(prev, "reset_token", last.token) = NoResultFound) =>
        /\ last.err = InvalidToken
        /\ last.ret = RetNone
        /\ Len(users) = Len(prev)
        /\ \A i \in DOMAIN prev :
               /\ users[i].hashed_password = prev[i].hashed_password
               /\ users[i].reset_token = prev[i].reset_token
               /\ users[i].session_id = prev[i].session_id

C13_Witness ==
    /\ last.op = "update_password"
    /\ last.token \in Uuids
    /\ find_user_by(prev, "reset_token", last.token) = NoResultFound
    /\ prev # <<>>
    /\ prev[1].reset_token # None
    /\ prev[1].session_id # None

\* ---------------------------------------------------------------- C14
\* C14: create_session on an email no row holds, and
\* get_user_from_session_id on a non-empty token no row holds, both return
\* None, raise nothing and leave the store as it was.
C14_SilentNone ==
    /\ (last.op = "create_session" /\ ~Registered(prev, last.email)) =>
           (last.ret = RetNone /\ last.err = NoError /\ users = prev)
    /\ (/\ last.op = "get_user_from_session_id"
        /\ last.token \notin {None, EmptyStr}
        /\ \A i \in DOMAIN prev : prev[i].session_id # last.token) =>
           (last.ret = RetNone /\ last.err = NoError /\ users = prev)
    /\ \A email \in Emails :
           ~Registered(users, email) =>
               create_session(users, email, uuids) = Outcome(users, RetNone, NoError, 0)
    /\ \A token \in Uuids :
           (\A i \in DOMAIN users : users[i].session_id # token) =>
               Obs(get_user_from_session_id(users, token)) = [ret |-> RetNone, err |-> NoError]

C14_Witness ==
    /\ last.op = "get_user_from_session_id"
    /\ last.token \in Uuids
    /\ \A i \in DOMAIN prev : prev[i].session_id # last.token
    /\ \E i \in DOMAIN prev : prev[i].session_id # None
    /\ \E email \in Emails : ~Registered(users, email)

\* ---------------------------------------------------------------- C15
\* C15: in every state get_user_from_session_id with None or with the empty
\* string returns None and makes no store lookup; whatever the token, it
\* never returns a row whose session_id is None.
C15_EmptyTokenShortCircuits ==
    /\ \A token \in {None, EmptyStr} :
           get_user_from_session_id(users, token)
               = Looked(Outcome(users, RetNone, NoError, 0), 0)
    /\ \A token \in TokenArgs :
           LET out == get_user_from_session_id(users, token)
           IN  out.ret # RetNone => out.ret[1].session_id # None
    /\ (last.op = "get_user_from_session_id" /\ last.token \in {None, EmptyStr}) =>
           (last.ret = RetNone /\ last.err = NoError /\ users = prev)

C15_Witness ==
    /\ last.op = "get_user_from_session_id"
    /\ last.token = None
    /\ Len(users) = 2
    /\ users[1].session_id = None
    /\ users[2].session_id # None

\* ---------------------------------------------------------------- C17
\* C17: when every call runs to completion before the next starts, no two
\* rows have the same email, in every state.
C17_EmailUniqueSequential ==
    \A i, j \in DOMAIN users : users[i].email = users[j].email => i = j

C17_Witness ==
    /\ last.op = "register_user"
    /\ last.err = AlreadyExists
    /\ Len(users) = 2
    /\ presented # {}
    /\ sessionLog # <<>>

\* ---------------------------------------------------------------- C19
\* C19: a row's hashed_password changes only in an update_password call whose
\* token is the row's current reset_token and is not None, and
\* update_password given None or the empty string raises "Invalid reset
\* token" and changes no row.
C19_NullTokenRejected ==
    /\ \A i \in DOMAIN prev :
           users[i].hashed_password # prev[i].hashed_password =>
               /\ last.op = "update_password"
               /\ last.token \notin {None, EmptyStr}
               /\ last.token = prev[i].reset_token
    /\ (last.op = "update_password" /\ last.token \in {None, EmptyStr}) =>
           (last.err = InvalidToken /\ users = prev)

\* ---------------------------------------------------------------- C20
\* C20: with uuid4 never repeating, no two rows hold the same session_id
\* other than None, and get_user_from_session_id(t) for a non-empty t returns
\* the row of the email whose latest create_session returned t, if no
\* destroy_session was called for that row since, and None otherwise.
C20_SessionTokenIdentifiesOneAccount ==
    /\ \A i, j \in DOMAIN users :
           (users[i].session_id # None /\ users[i].session_id = users[j].session_id)
               => i = j
    /\ \A token \in Uuids :
           get_user_from_session_id(users, token).ret =
               IF \E email \in Emails : live[email] = token
               THEN LET email == CHOOSE e \in Emails : live[e] = token
                    IN  Ret(users[find_user_by(users, "email", email)])
               ELSE RetNone
    /\ last.op = "get_user_from_session_id" =>
           last.ret = get_user_from_session_id(users, last.token).ret

C20_Witness ==
    /\ last.op = "get_user_from_session_id"
    /\ last.ret # RetNone
    /\ Len(users) = 2
    /\ users[1].session_id # None
    /\ users[2].session_id # None
    /\ last.ret[1].id = 2

\* ---------------------------------------------------------------- threads
\* Concurrent callers. Auth takes no lock, so a method is not one step: each
\* store call it makes is a step of its own, and another thread's steps may
\* come between its lookup and its write.
seq == <<last, prev, cred, sessionLog, resetLog, live, presented>>

Finish(t, err) == [calls EXCEPT ![t].pc = "done", ![t].err = err]

\* register_user, line 30-31: the lookup, and the raise when it finds a row
RegisterLookup(t) ==
    /\ calls[t].pc = "idle"
    /\ \E email \in Emails, password \in Passwords :
           LET c == [Idle EXCEPT !.op = "register_user", !.email = email,
                                 !.password = password]
           IN  calls' = [calls EXCEPT ![t] =
                   IF find_user_by(users, "email", email) # NoResultFound
                   THEN [c EXCEPT !.pc = "done", !.err = AlreadyExists]
                   ELSE [c EXCEPT !.pc = "insert"]]
    /\ UNCHANGED <<users, uuids, seq>>

\* register_user, line 33-35: hash and insert
RegisterInsert(t) ==
    /\ calls[t].pc = "insert"
    /\ \E salt \in Salts :
           users' = add_user(users, calls[t].email, hash_password(calls[t].password, salt))
    /\ calls' = Finish(t, NoError)
    /\ UNCHANGED <<uuids, seq>>

\* register_user, line 34, on a store that enforces unique emails itself:
\* the insert of an email that arrived meanwhile is refused
RegisterInsertRefused(t) ==
    /\ calls[t].pc = "insert"
    /\ find_user_by(users, "email", calls[t].email) # NoResultFound
    /\ calls' = Finish(t, "IntegrityError")
    /\ UNCHANGED <<users, uuids, seq>>

\* get_reset_password_token, line 77-79: the lookup
ResetLookup(t) ==
    /\ calls[t].pc = "idle"
    /\ \E email \in Emails :
           LET c    == [Idle EXCEPT !.op = "get_reset_password_token", !.email = email]
               user == find_user_by(users, "email", email)
           IN  calls' = [calls EXCEPT ![t] =
                   IF user = NoResultFound
                   THEN [c EXCEPT !.pc = "done", !.err = InvalidTarget]
                   ELSE [c EXCEPT !.pc = "store", !.user = users[user].id]]
    /\ UNCHANGED <<users, uuids, seq>>

\* get_reset_password_token, line 81-83: a new token, written to the row
ResetStore(t) ==
    /\ calls[t].pc = "store"
    /\ uuids < MaxUuid
    /\ users' = update_user(users, calls[t].user, "reset_token", Uuid(uuids + 1))
    /\ uuids' = uuids + 1
    /\ calls' = [Finish(t, NoError) EXCEPT ![t].token = Uuid(uuids + 1)]
    /\ UNCHANGED seq

\* update_password, line 88 and 92-93: the lookup by reset token
UpdateLookup(t) ==
    /\ calls[t].pc = "idle"
    /\ \E reset_token \in TokenArgs, password \in Passwords :
           LET c    == [Idle EXCEPT !.op = "update_password", !.token = reset_token,
                                    !.password = password]
               user == find_user_by(users, "reset_token", reset_token)
           IN  calls' = [calls EXCEPT ![t] =
                   IF user = NoResultFound
                   THEN [c EXCEPT !.pc = "done", !.err = InvalidToken]
                   ELSE [c EXCEPT !.pc = "write", !.user = users[user].id,
                                  !.old = users[user].hashed_password]]
    /\ UNCHANGED <<users, uuids, seq>>

\* update_password, line 89-91: the digest is computed, then
\* self._db.update_user() raises TypeError and nothing is written
UpdateWrite(t) ==
    /\ calls[t].pc = "write"
    /\ calls' = Finish(t, TypeError)
    /\ UNCHANGED <<users, uuids, seq>>

NextConc ==
    \E t \in Threads :
        \/ RegisterLookup(t)
        \/ RegisterInsert(t)
        \/ RegisterInsertRefused(t)
        \/ ResetLookup(t)
        \/ ResetStore(t)
        \/ UpdateLookup(t)
        \/ UpdateWrite(t)

SpecConc == Init /\ [][NextConc]_vars

\* ---------------------------------------------------------------- C16
\* C16: update_password changes hashed_password and reset_token in one write,
\* also when other calls run between its steps: once a call that was given a
\* reset token a row held has returned, that row has the digest of the new
\* password and no reset token; and in no state does the row have its reset
\* token cleared with a digest that is not the new password's, or still hold
\* the token next to a digest other than the one the call found.
C16_UpdatePasswordAtomic ==
    \A t \in Threads :
        (/\ calls[t].op = "update_password"
         /\ calls[t].token \in Uuids
         /\ calls[t].user # NoResultFound) =>
            LET r == users[calls[t].user]
            IN  /\ calls[t].pc = "done" =>
                       (r.reset_token = None /\ checkpw(calls[t].password, r.hashed_password))
                /\ r.reset_token = None => checkpw(calls[t].password, r.hashed_password)
                /\ r.reset_token = calls[t].token => r.hashed_password = calls[t].old

\* ---------------------------------------------------------------- C18
\* C18: when two register_user calls for the same email run at the same
\* time, lookup and insert being separate store steps, at most one of them
\* inserts and the other raises "already exists"; no state has two rows
\* with that email.
C18_ConcurrentRegisterUnique ==
    /\ \A i, j \in DOMAIN users : users[i].email = users[j].email => i = j
    /\ \A t, u \in Threads :
           (/\ t # u
            /\ calls[t].op = "register_user" /\ calls[t].pc = "done"
            /\ calls[u].op = "register_user" /\ calls[u].pc = "done"
            /\ calls[t].email = calls[u].email) =>
               /\ calls[t].err \in {NoError, AlreadyExists}
               /\ calls[t].err = NoError => calls[u].err = AlreadyExists

====
